---------------------------- MODULE Spec2Model ----------------------------
(***************************************************************************)
(* Bounding-box pixel splitting of pyFAI: histoBBox1d and histoBBox2d of   *)
(* src/pyFAI/ext/splitBBox.pyx as a state machine.                         *)
(*                                                                         *)
(* One behaviour is one call.  The initial state holds the arguments of    *)
(* the call (inp); the actions are the phases of the function body:        *)
(*   Validate         argument conversion, asserts, allocation             *)
(*   ScanPixel        one iteration of the range scan                      *)
(*   ResolveRange     range override, clamp, upper bound, bin width        *)
(*   AccumulatePixel  one iteration of the accumulation loop               *)
(*   Normalize        the merge loop, the bin centres and the return       *)
(*                                                                         *)
(* Numbers.  Positions, weights and corrections are integers of a grid;    *)
(* everything the code computes from them is an exact rational <<n, d>>,   *)
(* d > 0, in lowest terms.  Rounding of float32/float64 is not modelled.   *)
(* Positions are counted in units of pi/3, so that pi is 3 grid units.     *)
(* Arrays are sequences indexed from 1: pixel idx of the code is element   *)
(* idx + 1 here, bins keep the code's indices 0 .. bins-1.                 *)
(* An optional argument is <<>> (None) or <<v>> (the value v).             *)
(***************************************************************************)
EXTENDS Integers, Sequences, FiniteSets, TLC

VARIABLES
    inp,          \* the arguments of the call (never changed)
    pc,           \* "entry", "scan", "resolve", "accumulate", "normalize",
                  \* "done", "failed" (an exception left the call),
                  \* "undefined" (a floating-point division by zero)
    err,          \* "none" or the exception (for an assert: its message)
    idx,          \* loop index of the scan / accumulation loop (1-based)
    bins0, bins1, \* bin counts after argument handling (1d: bins1 = 1)
    pos0_min, pos0_max, pos0_maxin,
    pos1_min, pos1_max, pos1_maxin,
    delta0, delta1,
    cpos0_lower, cpos0_upper, cpos1_lower, cpos1_upper,
    check_pos1,
    outData, outCount, outMerge,
    edges0, edges1

vars == <<inp, pc, err, idx, bins0, bins1, pos0_min, pos0_max, pos0_maxin,
          pos1_min, pos1_max, pos1_maxin, delta0, delta1,
          cpos0_lower, cpos0_upper, cpos1_lower, cpos1_upper, check_pos1,
          outData, outCount, outMerge, edges0, edges1>>

---------------------------------------------------------------------------
(* Exact rationals.                                                        *)

RECURSIVE GCD(_, _)
GCD(a, b) == IF b = 0 THEN a ELSE GCD(b, a % b)

Abs(x) == IF x < 0 THEN -x ELSE x

\* n/d in lowest terms with a positive denominator (d # 0)
Rat(n, d) ==
    LET g == GCD(Abs(n), Abs(d))
        s == IF d < 0 THEN -1 ELSE 1
    IN  <<(s * n) \div g, (s * d) \div g>>

R(i) == <<i, 1>>
Zero == R(0)
One == R(1)

RAdd(a, b) == Rat(a[1] * b[2] + b[1] * a[2], a[2] * b[2])
RSub(a, b) == Rat(a[1] * b[2] - b[1] * a[2], a[2] * b[2])
RMul(a, b) == Rat(a[1] * b[1], a[2] * b[2])
RDiv(a, b) == Rat(a[1] * b[2], a[2] * b[1])
RLt(a, b) == a[1] * b[2] < b[1] * a[2]
RLe(a, b) == a[1] * b[2] <= b[1] * a[2]
RGt(a, b) == RLt(b, a)
RGe(a, b) == RLe(b, a)
RNeg(a) == <<-a[1], a[2]>>
RAbs(a) == <<Abs(a[1]), a[2]>>

\* the C cast <ssize_t> x: truncation toward zero
Trunc(a) == IF a[1] >= 0 THEN a[1] \div a[2] ELSE -((-a[1]) \div a[2])

RECURSIVE RSum(_)
RSum(S) == IF S = {} THEN Zero
           ELSE LET w == CHOOSE w \in S : TRUE
                IN  RAdd(w[2], RSum(S \ {w}))

\* sum of all cells of an accumulator array
Total(arr) == RSum({<<c, arr[c]>> : c \in DOMAIN arr})

---------------------------------------------------------------------------
(* regrid_common.pxi (included at line 38, not part of src/).              *)

\* EPS32 = 1 + eps is (EpsDen + 1) / EpsDen
EpsDen == 8
EPS32 == <<EpsDen + 1, EpsDen>>

\* pi in grid units
Pi == 3

\* the smallest possible value greater than the maximum: a relative nudge
calc_upper_bound(maximum_value) ==
    IF RGt(maximum_value, Zero) THEN RMul(maximum_value, EPS32)
    ELSE RDiv(maximum_value, EPS32)

\* fractional bin coordinate (delta # 0)
get_bin_number(x0, pos_min, delta) == RDiv(RSub(x0, pos_min), delta)

---------------------------------------------------------------------------
(* Arguments.                                                              *)

IsNone(x) == Len(x) = 0
Val(x) == x[1]
None == <<>>
Some(v) == <<v>>

size == Len(inp.weights)
Pixels == 1..size

cdata(i) == R(inp.weights[i])
cpos0(i) == R(inp.pos0[i])
dpos0(i) == R(inp.delta_pos0[i])
cpos1(i) == R(Val(inp.pos1)[i])
dpos1(i) == R(Val(inp.delta_pos1)[i])

check_mask == ~IsNone(inp.mask)
\* the mask convention inverted (0 taken as masked)
MaskBitInverted(i) == Val(inp.mask)[i] = 0

MaskBit(i) == Val(inp.mask)[i] # 0
\* (check_mask) and (cmask[idx])
IsMasked(i) == check_mask /\ MaskBit(i)

do_dark == ~IsNone(inp.dark)
do_flat == ~IsNone(inp.flat)
do_polarization == ~IsNone(inp.polarization)
do_solidangle == ~IsNone(inp.solidangle)

\* check_dummy, cdummy, ddummy of histoBBox1d
check_dummy1d == ~IsNone(inp.dummy)
cdummy1d ==
    IF ~IsNone(inp.dummy) THEN R(Val(inp.dummy))
    ELSE IF IsNone(inp.empty) THEN Zero ELSE R(Val(inp.empty))
ddummy1d ==
    IF ~IsNone(inp.dummy) /\ ~IsNone(inp.delta_dummy)
    THEN R(Val(inp.delta_dummy)) ELSE Zero

\* check_dummy, cdummy, ddummy of histoBBox2d: check_dummy is only set when
\* both dummy and delta_dummy are given
check_dummy2d == ~IsNone(inp.dummy) /\ ~IsNone(inp.delta_dummy)
cdummy2d ==
    IF ~IsNone(inp.dummy) THEN R(Val(inp.dummy)) ELSE R(Val(inp.empty))
ddummy2d == R(Val(inp.delta_dummy))

check_dummy == IF inp.op = "1d" THEN check_dummy1d ELSE check_dummy2d
cdummy == IF inp.op = "1d" THEN cdummy1d ELSE cdummy2d
ddummy == IF inp.op = "1d" THEN ddummy1d ELSE ddummy2d

\* check_dummy and (fabs(data - cdummy) <= ddummy), on the raw weight
IsDummy(i) ==
    check_dummy /\ RLe(RAbs(RSub(cdata(i), cdummy)), ddummy)

\* data after dark, flat, polarization and solid angle corrections
Corrected(i) ==
    LET d1 == IF do_dark THEN RSub(cdata(i), R(Val(inp.dark)[i])) ELSE cdata(i)
        d2 == IF do_flat THEN RDiv(d1, R(Val(inp.flat)[i])) ELSE d1
        d3 == IF do_polarization THEN RDiv(d2, R(Val(inp.polarization)[i])) ELSE d2
        d4 == IF do_solidangle THEN RDiv(d3, R(Val(inp.solidangle)[i])) ELSE d3
    IN  d4

Min2(a, b) == IF a <= b THEN a ELSE b
Max2(a, b) == IF a >= b THEN a ELSE b
\* pos0Range is not None and len(pos0Range) > 1
HasRange(r) == ~IsNone(r)
RangeMin(r) == R(Min2(Val(r)[1], Val(r)[2]))
RangeMax(r) == R(Max2(Val(r)[1], Val(r)[2]))


---------------------------------------------------------------------------
(* Entry: argument conversion, asserts and allocation.                     *)

\* a length test that also accepts an array that is too long
SizeAtLeast(n) == n >= size

\* assert x.size == size
SizeMatches(n) == n = size

\* the first exception histoBBox1d raises before the range scan, or "none"
EntryError1d ==
    IF inp.bins < 0 THEN "OverflowError"
    ELSE IF ~SizeMatches(Len(inp.pos0)) THEN "pos0.size == size"
    ELSE IF ~SizeMatches(Len(inp.delta_pos0)) THEN "delta_pos0.size == size"
    ELSE IF ~(inp.bins > 1) THEN "at lease one bin"
    ELSE IF ~IsNone(inp.mask) /\ ~SizeMatches(Len(Val(inp.mask))) THEN "mask size"
    ELSE IF do_dark /\ ~SizeMatches(Len(Val(inp.dark))) THEN "dark current array size"
    ELSE IF do_flat /\ ~SizeMatches(Len(Val(inp.flat))) THEN "flat-field array size"
    ELSE IF do_polarization /\ ~SizeMatches(Len(Val(inp.polarization)))
         THEN "polarization array size"
    ELSE IF do_solidangle /\ ~SizeMatches(Len(Val(inp.solidangle)))
         THEN "Solid angle array size"
    ELSE "none"

\* the first exception histoBBox2d raises before the range scan, or "none"
EntryError2d ==
    IF ~SizeMatches(Len(inp.pos0)) THEN "pos0.size == size"
    ELSE IF ~SizeMatches(Len(Val(inp.pos1))) THEN "pos1.size == size"
    ELSE IF ~SizeMatches(Len(inp.delta_pos0)) THEN "delta_pos0.size == size"
    ELSE IF ~SizeMatches(Len(Val(inp.delta_pos1))) THEN "delta_pos1.size == size"
    ELSE IF ~IsNone(inp.mask) /\ ~SizeMatches(Len(Val(inp.mask))) THEN "mask size"
    ELSE IF IsNone(inp.dummy) /\ IsNone(inp.empty) THEN "TypeError"
    ELSE IF do_dark /\ ~SizeMatches(Len(Val(inp.dark))) THEN "dark current array size"
    ELSE IF do_flat /\ ~SizeMatches(Len(Val(inp.flat))) THEN "flat-field array size"
    ELSE IF do_polarization /\ ~SizeMatches(Len(Val(inp.polarization)))
         THEN "polarization array size"
    ELSE IF do_solidangle /\ ~SizeMatches(Len(Val(inp.solidangle)))
         THEN "Solid angle array size"
    ELSE "none"

\* bins of histoBBox1d: a size_t, used as given
Bins1d(b) == b

\* bins0, bins1 of histoBBox2d: if bins0 <= 0: bins0 = 1
ClampBins(b) == IF b <= 0 THEN 1 ELSE b

Cells1d(n) == 0 .. (n - 1)
Cells2d(n0, n1) == (0 .. (n0 - 1)) \X (0 .. (n1 - 1))

Validate ==
    /\ pc = "entry"
    /\ LET e == IF inp.op = "1d" THEN EntryError1d ELSE EntryError2d
           b0 == IF inp.op = "1d" THEN Bins1d(inp.bins) ELSE ClampBins(inp.bins[1])
           b1 == IF inp.op = "1d" THEN 1 ELSE ClampBins(inp.bins[2])
           cells == IF inp.op = "1d" THEN Cells1d(b0) ELSE Cells2d(b0, b1)
       IN  IF e # "none"
           THEN /\ pc' = "failed"
                /\ err' = e
                /\ UNCHANGED <<idx, bins0, bins1, pos0_min, pos0_max, pos1_min,
                               pos1_max, cpos0_lower, cpos0_upper, cpos1_lower,
                               cpos1_upper, outData, outCount, outMerge>>
           ELSE /\ pc' = "scan"
                /\ err' = "none"
                /\ idx' = 1
                /\ bins0' = b0
                /\ bins1' = b1
                /\ outData' = [c \in cells |-> Zero]
                /\ outCount' = [c \in cells |-> Zero]
                /\ outMerge' = [c \in cells |-> Zero]
                /\ cpos0_lower' = [i \in Pixels |-> Zero]
                /\ cpos0_upper' = [i \in Pixels |-> Zero]
                /\ cpos1_lower' = [i \in Pixels |-> Zero]
                /\ cpos1_upper' = [i \in Pixels |-> Zero]
                /\ pos0_min' = cpos0(1)
                /\ pos0_max' = cpos0(1)
                /\ pos1_min' = IF inp.op = "2d" THEN cpos1(1) ELSE Zero
                /\ pos1_max' = IF inp.op = "2d" THEN cpos1(1) ELSE Zero
    /\ UNCHANGED <<inp, pos0_maxin, pos1_maxin, delta0, delta1, check_pos1,
                   edges0, edges1>>

---------------------------------------------------------------------------
(* The range scan.                                                         *)

RMin(a, b) == IF RLt(b, a) THEN b ELSE a
RMax(a, b) == IF RGt(b, a) THEN b ELSE a

\* axis-1 bounds of the 2d scan, truncated at the branch cut
ChiUpper(m, chiDiscAtPi) ==
    LET cut == R((2 - (IF chiDiscAtPi THEN 1 ELSE 0)) * Pi)
    IN  IF RGt(m, cut) THEN cut ELSE m
ChiLower(m, chiDiscAtPi) ==
    LET cut == R((-(IF chiDiscAtPi THEN 1 ELSE 0)) * Pi)
    IN  IF RLt(m, cut) THEN cut ELSE m

\* whether the scan skips pixel i
ScanSkips(i) == IsMasked(i)

ScanPixel ==
    /\ pc = "scan"
    /\ IF idx > size
       THEN /\ pc' = "resolve"
            /\ UNCHANGED <<idx, pos0_min, pos0_max, pos1_min, pos1_max,
                           cpos0_lower, cpos0_upper, cpos1_lower, cpos1_upper>>
       ELSE /\ pc' = "scan"
            /\ idx' = idx + 1
            /\ IF ScanSkips(idx)
               THEN UNCHANGED <<pos0_min, pos0_max, pos1_min, pos1_max,
                                cpos0_lower, cpos0_upper, cpos1_lower, cpos1_upper>>
               ELSE LET min0 == RSub(cpos0(idx), dpos0(idx))
                        max0 == RAdd(cpos0(idx), dpos0(idx))
                    IN  /\ cpos0_upper' = [cpos0_upper EXCEPT ![idx] = max0]
                        /\ cpos0_lower' = [cpos0_lower EXCEPT ![idx] = min0]
                        /\ pos0_max' = RMax(pos0_max, max0)
                        /\ pos0_min' = RMin(pos0_min, min0)
                        /\ IF inp.op = "2d"
                           THEN LET min1 == ChiLower(RSub(cpos1(idx), dpos1(idx)),
                                                     inp.chiDiscAtPi)
                                    max1 == ChiUpper(RAdd(cpos1(idx), dpos1(idx)),
                                                     inp.chiDiscAtPi)
                                IN  /\ cpos1_upper' = [cpos1_upper EXCEPT ![idx] = max1]
                                    /\ cpos1_lower' = [cpos1_lower EXCEPT ![idx] = min1]
                                    /\ pos1_max' = RMax(pos1_max, max1)
                                    /\ pos1_min' = RMin(pos1_min, min1)
                           ELSE UNCHANGED <<cpos1_lower, cpos1_upper, pos1_min, pos1_max>>
    /\ UNCHANGED <<inp, err, bins0, bins1, pos0_maxin, pos1_maxin, delta0, delta1,
                   check_pos1, outData, outCount, outMerge, edges0, edges1>>

---------------------------------------------------------------------------
(* Range override, clamp, upper bound and bin width.                       *)

\* pos0_min of histoBBox1d: override, then the clamp of a negative minimum
ResolveMin1d(scanned, range) ==
    LET m == IF HasRange(range) THEN RangeMin(range) ELSE scanned
    IN  IF RLt(m, Zero) THEN Zero ELSE m

\* pos0_maxin / pos1_maxin: the override or the scanned maximum
ResolveMaxin(scanned, range) ==
    IF HasRange(range) THEN RangeMax(range) ELSE scanned

\* the clamp applied to the scanned minimum only, not to an explicit range
ResolveMin2dRangeLast(scanned, range, allow_pos0_neg) ==
    IF HasRange(range) THEN RangeMin(range)
    ELSE IF ~allow_pos0_neg /\ RLt(scanned, Zero) THEN Zero ELSE scanned

\* pos0_min of histoBBox2d: override, then the clamp unless allow_pos0_neg
ResolveMin2d(scanned, range, allow_pos0_neg) ==
    LET m == IF HasRange(range) THEN RangeMin(range) ELSE scanned
    IN  IF ~allow_pos0_neg /\ RLt(m, Zero) THEN Zero ELSE m

\* pos1_min of histoBBox2d
ResolveMin1(scanned, range) ==
    IF HasRange(range) THEN RangeMin(range) ELSE scanned

\* the exception of the pos1 checks of histoBBox1d (made when pos1Range is
\* given), or "none"
Pos1Error1d ==
    IF ~HasRange(inp.pos1Range) THEN "none"
    ELSE IF IsNone(inp.pos1) THEN "AttributeError"
    ELSE IF ~SizeMatches(Len(Val(inp.pos1))) THEN "pos1.size == size"
    ELSE IF IsNone(inp.delta_pos1) THEN "AttributeError"
    ELSE IF ~SizeMatches(Len(Val(inp.delta_pos1))) THEN "delta_pos1.size == size"
    ELSE "none"

BinWidth(pmax, pmin, n) == RDiv(RSub(pmax, pmin), R(n))

ResolveRange1d ==
    LET pmin == ResolveMin1d(pos0_min, inp.pos0Range)
        maxin == ResolveMaxin(pos0_max, inp.pos0Range)
        pmax == calc_upper_bound(maxin)
    IN  /\ pos0_min' = pmin
        /\ pos0_maxin' = maxin
        /\ pos0_max' = pmax
        /\ IF Pos1Error1d # "none"
           THEN /\ pc' = "failed"
                /\ err' = Pos1Error1d
                /\ UNCHANGED <<idx, check_pos1, pos1_min, pos1_maxin, pos1_max,
                               delta0, delta1>>
           ELSE /\ pc' = "accumulate"
                /\ idx' = 1
                /\ err' = err
                /\ check_pos1' = HasRange(inp.pos1Range)
                /\ IF HasRange(inp.pos1Range)
                   THEN /\ pos1_min' = RangeMin(inp.pos1Range)
                        /\ pos1_maxin' = RangeMax(inp.pos1Range)
                        /\ pos1_max' = calc_upper_bound(RangeMax(inp.pos1Range))
                   ELSE UNCHANGED <<pos1_min, pos1_maxin, pos1_max>>
                /\ delta0' = BinWidth(pmax, pmin, bins0)
                /\ delta1' = delta1

ResolveRange2d ==
    LET pmin0 == ResolveMin2d(pos0_min, inp.pos0Range, inp.allow_pos0_neg)
        maxin0 == ResolveMaxin(pos0_max, inp.pos0Range)
        pmin1 == ResolveMin1(pos1_min, inp.pos1Range)
        maxin1 == ResolveMaxin(pos1_max, inp.pos1Range)
        pmax0 == calc_upper_bound(maxin0)
        pmax1 == calc_upper_bound(maxin1)
    IN  /\ pos0_min' = pmin0
        /\ pos0_maxin' = maxin0
        /\ pos0_max' = pmax0
        /\ pos1_min' = pmin1
        /\ pos1_maxin' = maxin1
        /\ pos1_max' = pmax1
        /\ delta0' = BinWidth(pmax0, pmin0, bins0)
        /\ delta1' = BinWidth(pmax1, pmin1, bins1)
        /\ pc' = "accumulate"
        /\ idx' = 1
        /\ UNCHANGED <<err, check_pos1>>

ResolveRange ==
    /\ pc = "resolve"
    /\ IF inp.op = "1d" THEN ResolveRange1d ELSE ResolveRange2d
    /\ UNCHANGED <<inp, bins0, bins1, cpos0_lower, cpos0_upper, cpos1_lower,
                   cpos1_upper, outData, outCount, outMerge, edges0, edges1>>

---------------------------------------------------------------------------
(* Accumulation.  What one pixel writes is a set of <<cell, fraction>>:    *)
(* outCount[cell] += fraction, outData[cell] += data * fraction.  The      *)
(* cells one pixel writes are pairwise different.                          *)

\* histoBBox1d, lines 205-216: the bins of the footprint, clipped to the array
BinMax1d(fbin0_max, bins) ==
    IF RGe(fbin0_max, R(bins)) THEN bins - 1 ELSE Trunc(fbin0_max)
BinMin1d(fbin0_min) ==
    IF RLt(fbin0_min, Zero) THEN 0 ELSE Trunc(fbin0_min)

\* (fbin0_max < 0) or (fbin0_min >= bins)
OutOfBins1d(fbin0_min, fbin0_max, bins) ==
    RLt(fbin0_max, Zero) \/ RGe(fbin0_min, R(bins))

\* check_pos1 and ((pos1 + dpos1 < pos1_min) or (pos1 - dpos1 > pos1_max))
OutOfPos1(i) ==
    check_pos1 /\ (\/ RLt(RAdd(cpos1(i), dpos1(i)), pos1_min)
                   \/ RGt(RSub(cpos1(i), dpos1(i)), pos1_max))

\* the split without the loop over the bins between the first and the last
Writes1dNoInterior(fbin0_min, fbin0_max, bin0_min, bin0_max) ==
    IF bin0_min = bin0_max
    THEN {<<bin0_min, One>>}
    ELSE LET deltaA == RDiv(One, RSub(fbin0_max, fbin0_min))
             deltaL == RSub(R(bin0_min + 1), fbin0_min)
             deltaR == RSub(fbin0_max, R(bin0_max))
         IN  {<<bin0_min, RMul(deltaA, deltaL)>>,
              <<bin0_max, RMul(deltaA, deltaR)>>}

\* histoBBox1d, lines 227-248
Writes1d(fbin0_min, fbin0_max, bin0_min, bin0_max) ==
    IF bin0_min = bin0_max
    THEN {<<bin0_min, One>>}
    ELSE LET deltaA == RDiv(One, RSub(fbin0_max, fbin0_min))
             deltaL == RSub(R(bin0_min + 1), fbin0_min)
             deltaR == RSub(fbin0_max, R(bin0_max))
         IN  {<<bin0_min, RMul(deltaA, deltaL)>>,
              <<bin0_max, RMul(deltaA, deltaR)>>}
             \cup {<<b, deltaA>> : b \in (bin0_min + 1) .. (bin0_max - 1)}

\* the range test with <= and >=: a footprint that touches the range is skipped
OutOfRange2dTouching(min0, max0, min1, max1) ==
    \/ RLe(max0, pos0_min) \/ RLe(max1, pos1_min)
    \/ RGe(min0, pos0_maxin) \/ RGe(min1, pos1_maxin)

\* histoBBox2d, lines 466-467: no overlap with the range
OutOfRange2d(min0, max0, min1, max1) ==
    \/ RLt(max0, pos0_min) \/ RLt(max1, pos1_min)
    \/ RGt(min0, pos0_maxin) \/ RGt(min1, pos1_maxin)

\* histoBBox2d, lines 469-476: the footprint clipped to the range
ClipLow(m, pmin) == IF RLt(m, pmin) THEN pmin ELSE m
ClipHigh(m, maxin) == IF RGt(m, maxin) THEN maxin ELSE m

\* deltaU measured to the next bin boundary instead of from the previous one
DeltaUToNext(fbin1_max, bin1_max) == RSub(R(bin1_max + 1), fbin1_max)

\* histoBBox2d: the parts of the footprint in its first and last bin of
\* axis 0 (deltaL, deltaR) and of axis 1 (deltaD, deltaU)
DeltaL(bin0_min, fbin0_min) == RSub(R(bin0_min + 1), fbin0_min)
DeltaR(fbin0_max, bin0_max) == RSub(fbin0_max, R(bin0_max))
DeltaD(bin1_min, fbin1_min) == RSub(R(bin1_min + 1), fbin1_min)
DeltaU(fbin1_max, bin1_max) == RSub(fbin1_max, R(bin1_max))

\* histoBBox2d, lines 488-560
Writes2d(f0min, f0max, f1min, f1max, bin0_min, bin0_max, bin1_min, bin1_max) ==
    LET deltaL == DeltaL(bin0_min, f0min)
        deltaR == DeltaR(f0max, bin0_max)
        deltaD == DeltaD(bin1_min, f1min)
        deltaU == DeltaU(f1max, bin1_max)
        in0 == (bin0_min + 1) .. (bin0_max - 1)
        in1 == (bin1_min + 1) .. (bin1_max - 1)
    IN  IF bin0_min = bin0_max
        THEN IF bin1_min = bin1_max
             THEN {<< <<bin0_min, bin1_min>>, One >>}
             ELSE LET one_over_area == RDiv(One, RSub(f1max, f1min))
                  IN  {<< <<bin0_min, bin1_min>>, RMul(one_over_area, deltaD) >>,
                       << <<bin0_min, bin1_max>>, RMul(one_over_area, deltaU) >>}
                      \cup {<< <<bin0_min, j>>, one_over_area >> : j \in in1}
        ELSE IF bin1_min = bin1_max
             THEN LET one_over_area == RDiv(One, RSub(f0max, f0min))
                  IN  {<< <<bin0_min, bin1_min>>, RMul(one_over_area, deltaL) >>,
                       << <<bin0_max, bin1_min>>, RMul(one_over_area, deltaR) >>}
                      \cup {<< <<i, bin1_min>>, one_over_area >> : i \in in0}
             ELSE LET area_pixel == RMul(RSub(f0max, f0min), RSub(f1max, f1min))
                      one_over_area == RDiv(One, area_pixel)
                  IN  {<< <<bin0_min, bin1_min>>,
                          RMul(one_over_area, RMul(deltaL, deltaD)) >>,
                       << <<bin0_min, bin1_max>>,
                          RMul(one_over_area, RMul(deltaL, deltaU)) >>,
                       << <<bin0_max, bin1_min>>,
                          RMul(one_over_area, RMul(deltaR, deltaD)) >>,
                       << <<bin0_max, bin1_max>>,
                          RMul(one_over_area, RMul(deltaR, deltaU)) >>}
                      \cup {<< <<i, bin1_min>>, RMul(one_over_area, deltaD) >> : i \in in0}
                      \cup {<< <<i, j>>, one_over_area >> : i \in in0, j \in in1}
                      \cup {<< <<i, bin1_max>>, RMul(one_over_area, deltaU) >> : i \in in0}
                      \cup {<< <<bin0_min, j>>, RMul(one_over_area, deltaL) >> : j \in in1}
                      \cup {<< <<bin0_max, j>>, RMul(one_over_area, deltaR) >> : j \in in1}

\* an index of histoBBox2d (wraparound and boundscheck are on there)
Wrap(i, n) == IF i < 0 THEN i + n ELSE i
Cell2d(c) == <<Wrap(c[1], bins0), Wrap(c[2], bins1)>>

\* what pixel i does in the accumulation loop of histoBBox1d:
\* [kind |-> "skip" | "undefined" | "add", writes, data]
Step1d(i) ==
    IF IsMasked(i) THEN [kind |-> "skip", why |-> "mask"]
    ELSE IF IsDummy(i) THEN [kind |-> "skip", why |-> "dummy"]
    ELSE IF OutOfPos1(i) THEN [kind |-> "skip", why |-> "pos1"]
    ELSE IF delta0 = Zero THEN [kind |-> "undefined", why |-> "delta"]
    ELSE
      LET min0 == cpos0_lower[i]
          max0 == cpos0_upper[i]
          fbin0_min == get_bin_number(min0, pos0_min, delta0)
          fbin0_max == get_bin_number(max0, pos0_min, delta0)
      IN  IF OutOfBins1d(fbin0_min, fbin0_max, bins0)
          THEN [kind |-> "skip", why |-> "range"]
          ELSE LET bin0_max == BinMax1d(fbin0_max, bins0)
                   bin0_min == BinMin1d(fbin0_min)
                   W == Writes1d(fbin0_min, fbin0_max, bin0_min, bin0_max)
               IN  IF \E w \in W : w[1] \notin DOMAIN outCount
                   THEN [kind |-> "undefined", why |-> "index"]
                   ELSE [kind |-> "add", why |-> "", writes |-> W, data |-> Corrected(i)]

\* what pixel i does in the accumulation loop of histoBBox2d:
\* [kind |-> "skip" | "undefined" | "IndexError" | "add", writes, data]
Step2d(i) ==
    IF IsMasked(i) THEN [kind |-> "skip", why |-> "mask"]
    ELSE IF IsDummy(i) THEN [kind |-> "skip", why |-> "dummy"]
    ELSE
      LET lo0 == cpos0_lower[i]
          hi0 == cpos0_upper[i]
          lo1 == RSub(cpos1(i), dpos1(i))
          hi1 == RAdd(cpos1(i), dpos1(i))
      IN  IF OutOfRange2d(lo0, hi0, lo1, hi1)
          THEN [kind |-> "skip", why |-> "range"]
          ELSE IF delta0 = Zero \/ delta1 = Zero
          THEN [kind |-> "undefined", why |-> "delta"]
          ELSE
            LET min0 == ClipLow(lo0, pos0_min)
                min1 == ClipLow(lo1, pos1_min)
                max0 == ClipHigh(hi0, pos0_maxin)
                max1 == ClipHigh(hi1, pos1_maxin)
                fbin0_min == get_bin_number(min0, pos0_min, delta0)
                fbin0_max == get_bin_number(max0, pos0_min, delta0)
                fbin1_min == get_bin_number(min1, pos1_min, delta1)
                fbin1_max == get_bin_number(max1, pos1_min, delta1)
                W == Writes2d(fbin0_min, fbin0_max, fbin1_min, fbin1_max,
                              Trunc(fbin0_min), Trunc(fbin0_max),
                              Trunc(fbin1_min), Trunc(fbin1_max))
            IN  IF \E w \in W : Cell2d(w[1]) \notin DOMAIN outCount
                THEN [kind |-> "IndexError", why |-> "index"]
                ELSE [kind |-> "add", why |-> "",
                      writes |-> {<<Cell2d(w[1]), w[2]>> : w \in W},
                      data |-> Corrected(i)]

Step(i) == IF inp.op = "1d" THEN Step1d(i) ELSE Step2d(i)

\* arr[cell] += scale * fraction for every write
AddWrites(arr, W, scale) ==
    [c \in DOMAIN arr |->
        RAdd(arr[c], RMul(scale, RSum({w \in W : w[1] = c})))]

AccumulatePixel ==
    /\ pc = "accumulate"
    /\ IF idx > size
       THEN /\ pc' = "normalize"
            /\ UNCHANGED <<idx, err, outData, outCount>>
       ELSE LET st == Step(idx)
            IN  CASE st.kind = "skip" ->
                       /\ pc' = "accumulate"
                       /\ idx' = idx + 1
                       /\ UNCHANGED <<err, outData, outCount>>
                  [] st.kind = "add" ->
                       /\ pc' = "accumulate"
                       /\ idx' = idx + 1
                       /\ outCount' = AddWrites(outCount, st.writes, One)
                       /\ outData' = AddWrites(outData, st.writes, st.data)
                       /\ err' = err
                  [] st.kind = "IndexError" ->
                       /\ pc' = "failed"
                       /\ err' = "IndexError"
                       /\ UNCHANGED <<idx, outData, outCount>>
                  [] st.kind = "undefined" ->
                       /\ pc' = "undefined"
                       /\ UNCHANGED <<idx, err, outData, outCount>>
    /\ UNCHANGED <<inp, bins0, bins1, pos0_min, pos0_max, pos0_maxin, pos1_min,
                   pos1_max, pos1_maxin, delta0, delta1, cpos0_lower, cpos0_upper,
                   cpos1_lower, cpos1_upper, check_pos1, outMerge, edges0, edges1>>

---------------------------------------------------------------------------
(* The merge loop, the bin centres and the return.                         *)

\* count > epsilon, epsilon = 1e-10: for a count n/d with 0 < d < 2^31
\* (every rational of the model), n/d > 1e-10 exactly when n >= 1
GtEpsilon(count) == count[1] >= 1

\* the merge loop leaving a bin without count at 0
MergeZeroFill(data, count, normalization_factor, fill) ==
    IF GtEpsilon(count)
    THEN RDiv(RDiv(data, count), R(normalization_factor))
    ELSE Zero

\* lines 251-254 and 564-567
Merge(data, count, normalization_factor, fill) ==
    IF GtEpsilon(count)
    THEN RDiv(RDiv(data, count), R(normalization_factor))
    ELSE fill

\* numpy.linspace(start, stop, num), as a sequence
linspace(start, stop, num) ==
    [k \in 1 .. num |->
        IF num = 1 THEN start
        ELSE RAdd(start, RMul(R(k - 1), RDiv(RSub(stop, start), R(num - 1))))]

Half == Rat(1, 2)

\* bin centres: linspace(pos_min + 0.5 * delta, pos_maxin - 0.5 * delta, bins)
Centres(pmin, maxin, delta, n) ==
    linspace(RAdd(pmin, RMul(Half, delta)), RSub(maxin, RMul(Half, delta)), n)

Normalize ==
    /\ pc = "normalize"
    /\ outMerge' = [c \in DOMAIN outMerge |->
                      Merge(outData[c], outCount[c], inp.normalization_factor, cdummy)]
    /\ edges0' = Centres(pos0_min, pos0_maxin, delta0, bins0)
    /\ edges1' = IF inp.op = "2d"
                 THEN Centres(pos1_min, pos1_maxin, delta1, bins1)
                 ELSE edges1
    /\ pc' = "done"
    /\ UNCHANGED <<inp, err, idx, bins0, bins1, pos0_min, pos0_max, pos0_maxin,
                   pos1_min, pos1_max, pos1_maxin, delta0, delta1, cpos0_lower,
                   cpos0_upper, cpos1_lower, cpos1_upper, check_pos1, outData,
                   outCount>>

Next ==
    \/ Validate
    \/ ScanPixel
    \/ ResolveRange
    \/ AccumulatePixel
    \/ Normalize

---------------------------------------------------------------------------
(* The calls that are checked.                                             *)

MaxPos == 2
MaxHW == 2
MaxBins == 3

\* a pixel: weight, centre and half-width on both axes
Pixel(w, p0, d0, p1, d1) == [w |-> w, p0 |-> p0, d0 |-> d0, p1 |-> p1, d1 |-> d1]

\* a call with the pixels px and every optional argument left out
Call(op, px, bins) ==
    [op |-> op,
     weights |-> [i \in 1 .. Len(px) |-> px[i].w],
     pos0 |-> [i \in 1 .. Len(px) |-> px[i].p0],
     delta_pos0 |-> [i \in 1 .. Len(px) |-> px[i].d0],
     pos1 |-> Some([i \in 1 .. Len(px) |-> px[i].p1]),
     delta_pos1 |-> Some([i \in 1 .. Len(px) |-> px[i].d1]),
     bins |-> bins,
     pos0Range |-> None, pos1Range |-> None,
     dummy |-> None, delta_dummy |-> None,
     mask |-> None, dark |-> None, flat |-> None,
     solidangle |-> None, polarization |-> None,
     empty |-> IF op = "1d" THEN None ELSE Some(0),
     normalization_factor |-> 1,
     allow_pos0_neg |-> FALSE, chiDiscAtPi |-> TRUE]

Pos0Vals == -1 .. MaxPos
HWVals == 0 .. MaxHW

\* every correction array given, for 1 or 2 pixels
WithCorrections(c) ==
    LET n == Len(c.weights)
    IN  [c EXCEPT !.dark = Some([i \in 1 .. n |-> i]),
                  !.flat = Some([i \in 1 .. n |-> 3 - i]),
                  !.polarization = Some([i \in 1 .. n |-> i]),
                  !.solidangle = Some([i \in 1 .. n |-> i + 1])]

\* geometry: footprints, bin counts, explicit ranges, clamps
Ranges0 == {None, Some(<<0, 2>>), Some(<<-1, 1>>), Some(<<-2, -1>>)}
Ranges1 == {None, Some(<<-1, 1>>)}

GeomPixels1d == {Pixel(3, p, d, 1, 1) : p \in Pos0Vals, d \in HWVals}
SecondPixels1d == {Pixel(5, p, 1, 3, 1) : p \in Pos0Vals}
TwoPixels1d == {<<a, b>> : a \in GeomPixels1d, b \in SecondPixels1d}
GeomArrays1d == {<<a>> : a \in GeomPixels1d} \cup TwoPixels1d

GeomCalls1d ==
    {IF corr
     THEN WithCorrections([Call("1d", px, n) EXCEPT
                             !.pos0Range = r0, !.pos1Range = r1])
     ELSE [Call("1d", px, n) EXCEPT !.pos0Range = r0, !.pos1Range = r1] :
        px \in GeomArrays1d, n \in 2 .. MaxBins, r0 \in Ranges0, r1 \in Ranges1,
        corr \in BOOLEAN}
    \cup
    {[Call("1d", px, MaxBins) EXCEPT !.mask = m, !.dummy = d] :
        px \in TwoPixels1d,
        m \in {Some(<<1, 0>>), Some(<<0, 1>>)}, d \in {None, Some(3)}}

GeomPixels2d == {Pixel(3, p0, d0, p1, d1) :
                    p0 \in Pos0Vals, d0 \in HWVals, p1 \in {-1, 2}, d1 \in HWVals}
ProbePixel2d == Pixel(5, 1, 1, 1, 1)
\* <<allow_pos0_neg, chiDiscAtPi, corrections, pos1Range>>
Options2d == {<<FALSE, TRUE, FALSE, None>>,
              <<TRUE, FALSE, TRUE, None>>,
              <<TRUE, TRUE, FALSE, Some(<<-1, 1>>)>>}
BinPairs == {<<n, n>> : n \in 1 .. MaxBins} \cup {<<1, MaxBins>>}

GeomCalls2d ==
    {LET c == [Call("2d", <<a>>, n) EXCEPT
                 !.pos0Range = r0, !.pos1Range = o[4],
                 !.allow_pos0_neg = o[1], !.chiDiscAtPi = o[2]]
     IN  IF o[3] THEN WithCorrections(c) ELSE c :
        a \in GeomPixels2d, n \in BinPairs,
        r0 \in Ranges0 \ {Some(<<0, 2>>)}, o \in Options2d}
    \cup
    {[Call("2d", <<ProbePixel2d, a>>, <<MaxBins, MaxBins>>) EXCEPT
        !.mask = m, !.dummy = d] :
        a \in GeomPixels2d, m \in {None, Some(<<1, 0>>), Some(<<0, 1>>)},
        d \in {None, Some(3)}}

GeomCalls == GeomCalls1d \cup GeomCalls2d

\* mask, dummy, tolerance, empty value, normalisation factor, corrections
FilterPixels == {<<Pixel(w1, 1, 1, 1, 1), Pixel(w2, 2, 0, 1, 1)>> :
                    w1 \in {4, 5}, w2 \in {5, 6}}
FilterMasks == {None, Some(<<0, 0>>), Some(<<1, 0>>), Some(<<0, 1>>), Some(<<1, 1>>)}

FilterCalls ==
    {LET c == [Call(op, px, IF op = "1d" THEN MaxBins ELSE <<2, 2>>) EXCEPT
                 !.mask = m, !.dummy = d, !.delta_dummy = dd, !.empty = e,
                 !.normalization_factor = nf, !.pos0Range = r0]
     IN  IF corr THEN WithCorrections(c) ELSE c :
        op \in {"1d", "2d"}, px \in FilterPixels, m \in FilterMasks,
        d \in {None, Some(5)}, dd \in {None, Some(0), Some(1)},
        e \in {None, Some(0), Some(7)}, nf \in {1, 2},
        r0 \in {None, Some(<<0, 4>>)}, corr \in BOOLEAN}

\* bin counts and array lengths
ArrayNames == {"pos0", "delta_pos0", "pos1", "delta_pos1", "mask", "dark",
               "flat", "polarization", "solidangle"}
TwoPixels == <<Pixel(4, 1, 1, 1, 1), Pixel(6, 2, 0, 1, 1)>>

\* the call c with every optional array given
WithOptionalArrays(c) == [WithCorrections(c) EXCEPT !.mask = Some(<<0, 0>>)]

\* the call c with one element more in the array named bad
TooLong(c, bad) ==
    CASE bad = "pos0" -> [c EXCEPT !.pos0 = Append(@, 0)]
      [] bad = "delta_pos0" -> [c EXCEPT !.delta_pos0 = Append(@, 0)]
      [] bad = "pos1" -> [c EXCEPT !.pos1 = Some(Append(Val(@), 0))]
      [] bad = "delta_pos1" -> [c EXCEPT !.delta_pos1 = Some(Append(Val(@), 0))]
      [] bad = "mask" -> [c EXCEPT !.mask = Some(<<0, 0, 0>>)]
      [] bad = "dark" -> [c EXCEPT !.dark = Some(<<1, 1, 1>>)]
      [] bad = "flat" -> [c EXCEPT !.flat = Some(<<1, 1, 1>>)]
      [] bad = "polarization" -> [c EXCEPT !.polarization = Some(<<1, 1, 1>>)]
      [] bad = "solidangle" -> [c EXCEPT !.solidangle = Some(<<1, 1, 1>>)]
      [] OTHER -> c

BinRequests == -1 .. MaxBins

ValidationCalls ==
    {LET c == [Call(b[1], TwoPixels, b[2]) EXCEPT !.pos1Range = r1]
     IN  TooLong(IF opt THEN WithOptionalArrays(c) ELSE c, bad) :
        b \in {<<"1d", n>> : n \in BinRequests}
              \cup {<<"2d", <<n0, n1>>>> : n0 \in BinRequests, n1 \in {0, 2}},
        r1 \in {None, Some(<<0, 2>>)}, opt \in BOOLEAN,
        bad \in ArrayNames \cup {"none"}}
    \cup
    {[Call("1d", TwoPixels, 2) EXCEPT !.pos1Range = Some(<<0, 2>>), !.pos1 = None],
     [Call("1d", TwoPixels, 2) EXCEPT !.pos1Range = Some(<<0, 2>>),
                                      !.delta_pos1 = None]}

InitOf(calls) ==
    /\ inp \in calls
    /\ pc = "entry"
    /\ err = "none"
    /\ idx = 0
    /\ bins0 = 0
    /\ bins1 = 0
    /\ pos0_min = Zero /\ pos0_max = Zero /\ pos0_maxin = Zero
    /\ pos1_min = Zero /\ pos1_max = Zero /\ pos1_maxin = Zero
    /\ delta0 = Zero /\ delta1 = Zero
    /\ cpos0_lower = <<>> /\ cpos0_upper = <<>>
    /\ cpos1_lower = <<>> /\ cpos1_upper = <<>>
    /\ check_pos1 = FALSE
    /\ outData = <<>> /\ outCount = <<>> /\ outMerge = <<>>
    /\ edges0 = <<>> /\ edges1 = <<>>

Init == InitOf(ValidationCalls)
Spec == Init /\ [][Next]_vars

InitGeom == InitOf(GeomCalls)
SpecGeom == InitGeom /\ [][Next]_vars

InitFilter == InitOf(FilterCalls)
SpecFilter == InitFilter /\ [][Next]_vars

---------------------------------------------------------------------------
(* Properties.  The footprint, the validity and the geometric overlap of   *)
(* a pixel are written here from the arguments of the call, not from the   *)
(* arrays the operations compute.                                          *)

\* the footprint [pos - delta, pos + delta] of pixel i on each axis
Lo0(i) == RSub(R(inp.pos0[i]), R(inp.delta_pos0[i]))
Hi0(i) == RAdd(R(inp.pos0[i]), R(inp.delta_pos0[i]))
Lo1(i) == RSub(R(Val(inp.pos1)[i]), R(Val(inp.delta_pos1)[i]))
Hi1(i) == RAdd(R(Val(inp.pos1)[i]), R(Val(inp.delta_pos1)[i]))

\* a valid pixel: unmasked, and its raw weight is not the dummy value
Unmasked(i) == IsNone(inp.mask) \/ Val(inp.mask)[i] = 0
DummyTol == IF IsNone(inp.delta_dummy) THEN 0 ELSE Val(inp.delta_dummy)
NonDummy(i) ==
    IsNone(inp.dummy) \/ Abs(inp.weights[i] - Val(inp.dummy)) > DummyTol
ValidPixel(i) == Unmasked(i) /\ NonDummy(i)

\* the footprint lies inside the resolved range, below its upper bound
Inside0(i) ==
    RLe(pos0_min, Lo0(i)) /\ RLe(Hi0(i), pos0_maxin) /\ RLt(Hi0(i), pos0_max)
Inside1(i) ==
    RLe(pos1_min, Lo1(i)) /\ RLe(Hi1(i), pos1_maxin) /\ RLt(Hi1(i), pos1_max)
FullyInside(i) ==
    /\ Inside0(i)
    /\ (inp.op = "2d" \/ check_pos1) => Inside1(i)

\* the accumulation loop is about to process pixel idx
InLoop == pc = "accumulate" /\ idx <= size

\* the cells that hold a count
Touched == {c \in DOMAIN outCount : outCount[c] # Zero}

\* C1 (conservation): a valid pixel whose footprint lies fully inside the
\* resolved range adds 1 in total to OutputCount and its corrected weight in
\* total to OutputSum, in histoBBox1d and in histoBBox2d, whatever number of
\* bins it spans on each axis.
C1_Conservation ==
    [][(InLoop /\ ValidPixel(idx) /\ FullyInside(idx))
        => /\ pc' = "accumulate"
           /\ Total(outCount') = RAdd(Total(outCount), One)
           /\ Total(outData') = RAdd(Total(outData), Corrected(idx))]_vars

\* a pixel fully inside has been spread over three bins in 1D
C1_Witness ==
    /\ pc = "accumulate" /\ idx = 2 /\ inp.op = "1d"
    /\ ValidPixel(1) /\ FullyInside(1)
    /\ Cardinality(Touched) >= 3
    /\ Total(outCount) = One

RMinQ(a, b) == IF RLt(b, a) THEN b ELSE a
RMaxQ(a, b) == IF RGt(b, a) THEN b ELSE a

\* the fraction of the footprint [lo, hi] inside [pmin, pmax]
AxisFrac(lo, hi, pmin, pmax) ==
    IF lo = hi
    THEN IF RLe(pmin, lo) /\ RLe(lo, pmax) THEN One ELSE Zero
    ELSE LET ov == RSub(RMinQ(hi, pmax), RMaxQ(lo, pmin))
         IN  IF RGt(ov, Zero) THEN RDiv(ov, RSub(hi, lo)) ELSE Zero
OverlapFrac(i) ==
    IF inp.op = "1d" THEN AxisFrac(Lo0(i), Hi0(i), pos0_min, pos0_maxin)
    ELSE RMul(AxisFrac(Lo0(i), Hi0(i), pos0_min, pos0_maxin),
              AxisFrac(Lo1(i), Hi1(i), pos1_min, pos1_maxin))

Meets(i) ==
    IF inp.op = "1d"
    THEN /\ RGe(Hi0(i), pos0_min) /\ RLt(Lo0(i), pos0_max)
         /\ check_pos1 => (RGe(Hi1(i), pos1_min) /\ RLe(Lo1(i), pos1_max))
    ELSE /\ RGe(Hi0(i), pos0_min) /\ RLe(Lo0(i), pos0_maxin)
         /\ RGe(Hi1(i), pos1_min) /\ RLe(Lo1(i), pos1_maxin)

\* pixel i passes the mask and dummy tests the operation makes
Passes(i) == ~IsMasked(i) /\ ~IsDummy(i)

PositiveWidths == RGt(delta0, Zero) /\ (inp.op = "2d" => RGt(delta1, Zero))

C3_MaskExhaustive ==
    [][(InLoop /\ ~IsNone(inp.mask) /\ Val(inp.mask)[idx] = 1)
        => (outData' = outData /\ outCount' = outCount /\ pc' = "accumulate")]_vars

\* the masked first pixel, in range and not a dummy, has been passed over
C3_Witness ==
    /\ pc = "accumulate" /\ idx = 2
    /\ ~IsNone(inp.mask) /\ Val(inp.mask)[1] = 1
    /\ NonDummy(1) /\ Meets(1)
    /\ Touched = {}

\* C4 (dummy exclusion): when a dummy value is given, with tolerance 0 or
\* without tolerance, the accumulation step of a pixel whose raw weight is the
\* dummy value leaves OutputSum and OutputCount unchanged.
C4_DummyExcluded ==
    [][(/\ InLoop /\ ~IsNone(inp.dummy)
        /\ (IsNone(inp.delta_dummy) \/ Val(inp.delta_dummy) = 0)
        /\ inp.weights[idx] = Val(inp.dummy))
        => (outData' = outData /\ outCount' = outCount)]_vars

\* array lengths, as the caller sees them
OptBad(x) == ~IsNone(x) /\ Len(Val(x)) # Len(inp.weights)
EntryMismatch ==
    \/ Len(inp.pos0) # Len(inp.weights)
    \/ Len(inp.delta_pos0) # Len(inp.weights)
    \/ OptBad(inp.mask) \/ OptBad(inp.dark) \/ OptBad(inp.flat)
    \/ OptBad(inp.polarization) \/ OptBad(inp.solidangle)
    \/ (inp.op = "2d" /\ (OptBad(inp.pos1) \/ OptBad(inp.delta_pos1)))
Pos1Used1d == inp.op = "1d" /\ ~IsNone(inp.pos1Range)
Pos1Mismatch1d == Pos1Used1d /\ (OptBad(inp.pos1) \/ OptBad(inp.delta_pos1))
WellShaped ==
    /\ ~EntryMismatch /\ ~Pos1Mismatch1d
    /\ (Pos1Used1d \/ inp.op = "2d") => (~IsNone(inp.pos1) /\ ~IsNone(inp.delta_pos1))

Requested0 == IF inp.op = "1d" THEN inp.bins ELSE inp.bins[1]
Requested1 == IF inp.op = "1d" THEN 1 ELSE inp.bins[2]
AtLeastOne(n) == IF n <= 0 THEN 1 ELSE n

\* C5 (bin-count handling): a call with correctly shaped arrays is not
\* rejected whatever bin count is requested; a positive count is used as it
\* is and a count <= 0 becomes 1, on every axis of both operations.
C5_BinCountClamped ==
    (WellShaped /\ pc # "entry") =>
        /\ pc # "failed"
        /\ bins0 = AtLeastOne(Requested0)
        /\ inp.op = "2d" => bins1 = AtLeastOne(Requested1)

\* the value an empty bin is given
Sentinel ==
    IF ~IsNone(inp.dummy) THEN R(Val(inp.dummy))
    ELSE IF ~IsNone(inp.empty) THEN R(Val(inp.empty))
    ELSE Zero

\* C6 (normalizer rule and empty-bin fill): at the end, OutputMerge of a bin
\* with a count is OutputSum / OutputCount / normalization_factor, and
\* OutputMerge of a bin without count is the dummy value, or the empty value
\* when no dummy value was given.
C6_NormalizerRule ==
    pc = "done" =>
        \A c \in DOMAIN outMerge :
            outMerge[c] =
                IF RGt(outCount[c], Zero)
                THEN RDiv(RDiv(outData[c], outCount[c]),
                          R(inp.normalization_factor))
                ELSE Sentinel

\* a call has ended with a filled bin, an empty bin, a normalisation factor
\* and a sentinel that is not 0
C6_Witness ==
    /\ pc = "done" /\ inp.normalization_factor = 2 /\ Sentinel # Zero
    /\ \E c \in DOMAIN outMerge : outCount[c] = Zero /\ outMerge[c] = Sentinel
    /\ \E c \in DOMAIN outMerge : RGt(outCount[c], Zero) /\ outMerge[c] # Zero

\* pos0Range is the range the scan has found
NaturalRange0 ==
    /\ HasRange(inp.pos0Range)
    /\ RangeMin(inp.pos0Range) = pos0_min
    /\ RangeMax(inp.pos0Range) = pos0_max

\* the minimum the call resolves from the scan when no pos0Range is given
ScanMin0 ==
    IF inp.op = "1d" THEN ResolveMin1d(pos0_min, None)
    ELSE ResolveMin2d(pos0_min, None, inp.allow_pos0_neg)

\* C7 (range override idempotence): when pos0Range is the range the scan
\* finds, the call resolves the minimum, the maximum, the upper bound and the
\* bin width that it resolves without pos0Range; the accumulation, the merge
\* and the bin centres read nothing else of pos0Range.
C7_RangeOverrideIdempotent ==
    [][(pc = "resolve" /\ NaturalRange0 /\ pc' = "accumulate")
        => /\ pos0_min' = ScanMin0
           /\ pos0_maxin' = pos0_max
           /\ pos0_max' = calc_upper_bound(pos0_max)
           /\ delta0' = BinWidth(calc_upper_bound(pos0_max), ScanMin0, bins0)]_vars

\* a range equal to a footprint with a negative lower bound has been resolved
C7_Witness ==
    /\ pc = "accumulate" /\ idx = 1 /\ size = 1 /\ inp.op = "2d"
    /\ ~inp.allow_pos0_neg
    /\ HasRange(inp.pos0Range)
    /\ RangeMin(inp.pos0Range) = Lo0(1) /\ RangeMax(inp.pos0Range) = Hi0(1)
    /\ RLt(Lo0(1), Zero)
    /\ pos0_min = Zero

NothingAccumulated ==
    /\ \A c \in DOMAIN outCount : outCount[c] = Zero
    /\ \A c \in DOMAIN outData : outData[c] = Zero

\* C8 as stated (fail-fast validation): a call with an array of the wrong
\* length, pos1 and delta_pos1 of histoBBox1d included, fails before the
\* range scan starts.
C8_ChecksBeforeScan ==
    (EntryMismatch \/ Pos1Mismatch1d) => pc \in {"entry", "failed"}

\* C8 (fail-fast validation, amended): a call with a wrong length of the
\* positions, half-widths, mask, dark, flat, polarization or solid angle
\* fails before the range scan; a call of histoBBox1d with a wrong length of
\* pos1 or delta_pos1 only fails after the scan and before the accumulation.
\* Neither accumulates anything nor returns.
C8_ChecksBeforeAccumulation ==
    /\ EntryMismatch => pc \in {"entry", "failed"}
    /\ Pos1Mismatch1d => /\ pc \in {"entry", "scan", "resolve", "failed"}
                         /\ NothingAccumulated

\* histoBBox1d has failed on the length of pos1 after the scan of all pixels
C8_Witness ==
    /\ pc = "failed" /\ err = "pos1.size == size"
    /\ Pos1Mismatch1d /\ ~EntryMismatch
    /\ idx > size

\* the share of bin b on one axis: the part of [lo, hi] in the interval of b
AxisShare(lo, hi, pmin, delta, b) ==
    LET blo == RAdd(pmin, RMul(R(b), delta))
        bhi == RAdd(pmin, RMul(R(b + 1), delta))
    IN  IF lo = hi
        THEN IF RLe(blo, lo) /\ RLt(lo, bhi) THEN One ELSE Zero
        ELSE LET ov == RSub(RMinQ(hi, bhi), RMaxQ(lo, blo))
             IN  IF RGt(ov, Zero) THEN RDiv(ov, RSub(hi, lo)) ELSE Zero

\* length (1D) or area (2D) of footprint and bin c, over that of the footprint
GeoShare(i, c) ==
    IF inp.op = "1d" THEN AxisShare(Lo0(i), Hi0(i), pos0_min, delta0, c)
    ELSE RMul(AxisShare(Lo0(i), Hi0(i), pos0_min, delta0, c[1]),
              AxisShare(Lo1(i), Hi1(i), pos1_min, delta1, c[2]))

\* C9 (per-bin share equals geometric overlap): a valid pixel fully inside
\* the resolved range adds to OutputCount of every bin the length (1D) or
\* area (2D) of the intersection of its footprint with the bin divided by the
\* length or area of the footprint, and adds its corrected weight times that
\* fraction to OutputSum; a bin the footprint does not intersect gets nothing.
C9_ShareIsOverlap ==
    [][(InLoop /\ ValidPixel(idx) /\ FullyInside(idx))
        => \A c \in DOMAIN outCount :
             /\ outCount'[c] = RAdd(outCount[c], GeoShare(idx, c))
             /\ outData'[c] =
                   RAdd(outData[c], RMul(Corrected(idx), GeoShare(idx, c)))]_vars

\* a pixel fully inside has been spread over corner, edge and interior bins
\* of a 3 x 3 grid
C9_Witness ==
    /\ pc = "accumulate" /\ idx = 2 /\ inp.op = "2d"
    /\ ValidPixel(1) /\ FullyInside(1)
    /\ Cardinality(Touched) >= 9
    /\ outCount[<<1, 1>>] = GeoShare(1, <<1, 1>>)

\* C10 (in-bounds accumulation): every index at which the accumulation loop
\* writes lies inside the output arrays.
C10_InBounds ==
    /\ err # "IndexError"
    /\ InLoop => ~(Step(idx).kind \in {"undefined", "IndexError"}
                   /\ Step(idx).why = "index")

\* the call has resolved its range
Resolved == pc \in {"accumulate", "normalize", "done"}

UnmaskedPixels == {i \in Pixels : Unmasked(i)}

\* least and greatest element of a non-empty set of rationals
RMinOf(S) == CHOOSE x \in S : \A y \in S : RLe(x, y)
RMaxOf(S) == CHOOSE x \in S : \A y \in S : RGe(x, y)

\* a negative axis-0 minimum becomes 0 (histoBBox2d: unless allow_pos0_neg)
ClampNeg0(m) ==
    IF (inp.op = "1d" \/ ~inp.allow_pos0_neg) /\ RLt(m, Zero) THEN Zero ELSE m

\* the bounds of pixel i on axis 1, kept inside the chi domain:
\* [-pi, pi] with chiDiscAtPi, [0, 2 pi] without
ChiLo == IF inp.chiDiscAtPi THEN R(-Pi) ELSE Zero
ChiHi == IF inp.chiDiscAtPi THEN R(Pi) ELSE R(2 * Pi)
BoundLo1(i) == RMaxQ(Lo1(i), ChiLo)
BoundHi1(i) == RMinQ(Hi1(i), ChiHi)

\* C11 (range scan over unmasked pixels only): without explicit range and
\* with an unmasked pixel, the resolved minimum and the user-visible maximum
\* of each axis are the least lower bound and the greatest upper bound of
\* the unmasked pixels (the axis-0 minimum after the clamp of a negative
\* value); masked pixels, pixel 0 included, do not move them.
C11_ScanUnmaskedOnly ==
    (Resolved /\ UnmaskedPixels # {}) =>
        /\ ~HasRange(inp.pos0Range) =>
              /\ pos0_min = ClampNeg0(RMinOf({Lo0(i) : i \in UnmaskedPixels}))
              /\ pos0_maxin = RMaxOf({Hi0(i) : i \in UnmaskedPixels})
        /\ (inp.op = "2d" /\ ~HasRange(inp.pos1Range)) =>
              /\ pos1_min = RMinOf({BoundLo1(i) : i \in UnmaskedPixels})
              /\ pos1_maxin = RMaxOf({BoundHi1(i) : i \in UnmaskedPixels})

\* pixel i has positive half-widths on the axes the operation uses
PositiveHalfWidths(i) ==
    /\ inp.delta_pos0[i] > 0
    /\ (inp.op = "2d" \/ check_pos1) => Val(inp.delta_pos1)[i] > 0

\* on some axis the footprint of pixel i and the range [min, maxin] share
\* at most one point
ZeroOverlap(i) ==
    \/ RLe(Hi0(i), pos0_min) \/ RGe(Lo0(i), pos0_maxin)
    \/ /\ (inp.op = "2d" \/ check_pos1)
       /\ (RLe(Hi1(i), pos1_min) \/ RGe(Lo1(i), pos1_maxin))

\* C12 (zero-overlap pixels are skipped): the accumulation step of a pixel
\* with positive half-widths whose footprint lies outside the resolved range
\* or only touches one of its boundaries changes no cell of OutputSum or
\* OutputCount and divides by no zero, in histoBBox1d and in histoBBox2d.
C12_ZeroOverlapSkipped ==
    [][(InLoop /\ PositiveWidths /\ PositiveHalfWidths(idx) /\ ZeroOverlap(idx))
        => (outData' = outData /\ outCount' = outCount /\ pc' # "undefined")]_vars

\* C13 (explicit range takes precedence over the negative clamp): with an
\* explicit pos0Range the resolved axis-0 minimum is the minimum of
\* pos0Range, negative or not, and the bin width is measured from it.
C13_RangePrecedence ==
    (Resolved /\ HasRange(inp.pos0Range)) =>
        /\ pos0_min = RangeMin(inp.pos0Range)
        /\ delta0 = BinWidth(pos0_max, RangeMin(inp.pos0Range), bins0)

=============================================================================
